---- MODULE Spec2Model ----
(***************************************************************************)
(* PackagesDataLoader (presamples/loader.py): loading presample packages,  *)
(* indexing their identifier tables against the dictionaries of an LCA     *)
(* object, writing sampled values into its matrices and advancing the      *)
(* per-package sample indexers.                                            *)
(***************************************************************************)
EXTENDS Integers, Sequences, FiniteSets, TLC

(* ------------------------------------------------------------------ *)
(* Bounds                                                               *)
(* ------------------------------------------------------------------ *)

\* longest list of directories handed to the loader
MaxPackages == 2

\* number of update_sample_indices() calls followed
MaxAdvance == 2

\* number of sample columns stored in every samples array
NCols == 2

\* the target's matrices are Dim x Dim
Dim == 3

(* ------------------------------------------------------------------ *)
(* Values                                                               *)
(* ------------------------------------------------------------------ *)

\* Python's None, where the other values are strings
None == "None"

\* an optional value that is not a string: absent (None, or no such attribute)
\* or present
Absent == <<>>

Some(x) == <<x>>

Get(o) == o[1]

\* a key that a dictionary (or an attribute that an object) does not have
NoKey == "<absent>"

\* matrix positions, and the raw identifiers found in identifier tables
Pos == 0 .. (Dim - 1)
Ids == 1 .. 3

\* bw2data's TYPE_DICTIONARY: the `type` column of technosphere indices
TYPE_DICTIONARY == [production |-> 0, technosphere |-> 1, biosphere |-> 2, substitution |-> 3]

\* order of the type strings under Python's string comparison
TypeOrder == <<"cf", "technosphere">>

TypeRank(t) == CHOOSE i \in 1 .. Len(TypeOrder) : TypeOrder[i] = t

MatrixNames == {"technosphere_matrix", "characterization_matrix"}

DictNames == {"_product_dict", "_activity_dict", "_biosphere_dict"}

\* The caller builds the dictionaries of its LCA object from its databases and
\* may rebuild them all; Generations are the builds. Every identifier has a
\* position of the matrix in every dictionary (the loader's documented
\* assumption).
Generations == {"first", "rebuilt"}

Mapping(name, generation) ==
    IF generation = "rebuilt" THEN [x \in Ids |-> 0]
    ELSE IF name = "_activity_dict" THEN [x \in Ids |-> 3 - x]
    ELSE [x \in Ids |-> x - 1]

ZeroMatrix == [p \in Pos \X Pos |-> 0]

(* ------------------------------------------------------------------ *)
(* Packages on disk                                                     *)
(* ------------------------------------------------------------------ *)

\* a samples array of n rows: row i, column j holds base + 10*j + i
SamplesArray(n, base) == [i \in 1 .. n |-> [j \in 1 .. NCols |-> base + 10 * j + i]]

\* a resource bound to the technosphere matrix; rows are <<input, output, type>>
TechnosphereResource(rows, base) ==
    [type |-> "technosphere", matrix |-> "technosphere_matrix", names |-> NoKey,
     row_from_label |-> "input", row_to_label |-> "row", row_dict |-> "_product_dict",
     col_from_label |-> "output", col_to_label |-> "col", col_dict |-> "_activity_dict",
     indices |-> [dtype |-> <<"input", "output", "row", "col", "type">>,
                  rows |-> [i \in 1 .. Len(rows) |->
                              [input |-> rows[i][1], output |-> rows[i][2],
                               row |-> rows[i][1], col |-> rows[i][2],
                               type |-> rows[i][3]]]],
     samples |-> SamplesArray(Len(rows), base)]

\* a one-dimensional resource (characterization factors); rows are flows
CfResource(flows, base) ==
    [type |-> "cf", matrix |-> "characterization_matrix", names |-> NoKey,
     row_from_label |-> "flow", row_to_label |-> "row", row_dict |-> "_biosphere_dict",
     col_from_label |-> NoKey, col_to_label |-> NoKey, col_dict |-> NoKey,
     indices |-> [dtype |-> <<"flow", "row">>,
                  rows |-> [i \in 1 .. Len(flows) |->
                              [flow |-> flows[i], row |-> flows[i]]]],
     samples |-> SamplesArray(Len(flows), base)]

\* a resource of named parameters
ParameterResource ==
    [type |-> NoKey, matrix |-> NoKey, names |-> "names",
     row_from_label |-> NoKey, row_to_label |-> NoKey, row_dict |-> NoKey,
     col_from_label |-> NoKey, col_to_label |-> NoKey, col_dict |-> NoKey,
     indices |-> [dtype |-> <<>>, rows |-> <<>>],
     samples |-> <<>>]

\* a resource with neither a matrix nor names
OtherResource == [ParameterResource EXCEPT !.names = NoKey]

\* datapackage.json of each directory
Datapackage ==
    [tech |-> [name |-> "tech", id |-> "tech", seed |-> Some(1),
               resources |-> << TechnosphereResource(
                    << <<1, 1, TYPE_DICTIONARY.production>>,
                       <<1, 2, TYPE_DICTIONARY.technosphere>>,
                       <<2, 3, TYPE_DICTIONARY.substitution>> >>, 100) >>],
     mixed |-> [name |-> "mixed", id |-> "mixed", seed |-> Some(2),
                resources |-> << TechnosphereResource(
                     << <<1, 2, TYPE_DICTIONARY.technosphere>>,
                        <<1, 2, TYPE_DICTIONARY.production>> >>, 300),
                   ParameterResource,
                   CfResource(<<3>>, 400),
                   OtherResource,
                   CfResource(<<1>>, 500) >>],
     params |-> [name |-> "params", id |-> "params", seed |-> Some(0),
                 resources |-> << ParameterResource >>],
     blank |-> [name |-> "blank", id |-> "blank", seed |-> Absent,
                resources |-> << >>]]

Dirpaths == DOMAIN Datapackage

\* the seeds a caller may hand to the constructor
Seeds == {Absent, Some(0)}

(* ------------------------------------------------------------------ *)
(* Indexer and IrregularPresamplesArray                                 *)
(* ------------------------------------------------------------------ *)

\* states of the generator behind an Indexer
RngStates == 0 .. 3

\* the column an Indexer in generator state s points at
IndexOf(s) == (s \div 2) % NCols

\* Indexer(seed): a seeded generator starts from its seed, an unseeded one
\* from the entropy of the machine
Indexer(seed_value, entropy) ==
    LET s == IF seed_value = Absent THEN entropy ELSE Get(seed_value) % 4
    IN  [seed_value |-> seed_value, state |-> s, count |-> 0, index |-> IndexOf(s)]

\* next(indexer)
IndexerNext(indexer) ==
    LET s == (5 * indexer.state + 3) % 4
    IN  [indexer EXCEPT !.state = s, !.count = @ + 1, !.index = IndexOf(s)]

RECURSIVE Hstack(_)
Hstack(arrays) ==
    IF arrays = <<>> THEN <<>> ELSE Head(arrays) \o Hstack(Tail(arrays))

\* IrregularPresamplesArray.sample(index): column `index` of every segment,
\* the segments in the order given
Sample(samples, index) ==
    Hstack([k \in 1 .. Len(samples) |->
              [i \in 1 .. Len(samples[k]) |-> samples[k][i][(index % NCols) + 1]]])

(* ------------------------------------------------------------------ *)
(* load_data and consolidate                                            *)
(* ------------------------------------------------------------------ *)

Range(f) == { f[i] : i \in DOMAIN f }

IsError(x) == "error" \in DOMAIN x

\* consolidate with its assert statement compiled away
consolidate_NoAssert(group) ==
    IF \E el \in Range(group) :
          NoKey \in {el.row_from_label, el.row_to_label, el.row_dict}
    THEN [error |-> "KeyError"]
    ELSE IF Cardinality({ <<el.row_from_label, el.row_to_label, el.row_dict>> :
                            el \in Range(group) }) # 1
    THEN [error |-> "ConflictingLabels"]
    ELSE IF /\ \E o \in Range(group) : o.col_dict # NoKey
            /\ \E el \in Range(group) :
                 NoKey \in {el.col_from_label, el.col_to_label, el.col_dict}
    THEN [error |-> "KeyError"]
    ELSE IF /\ \E o \in Range(group) : o.col_dict # NoKey
            /\ Cardinality({ <<el.col_from_label, el.col_to_label, el.col_dict>> :
                               el \in Range(group) }) # 1
    THEN [error |-> "ConflictingLabels"]
    ELSE IF Cardinality({ r.indices.dtype : r \in Range(group) }) # 1
    THEN [error |-> "IncompatibleIndices"]
    ELSE [type |-> group[1].type, matrix |-> group[1].matrix, names |-> group[1].names,
          row_from_label |-> group[1].row_from_label,
          row_to_label |-> group[1].row_to_label,
          row_dict |-> group[1].row_dict,
          col_from_label |-> group[1].col_from_label,
          col_to_label |-> group[1].col_to_label,
          col_dict |-> group[1].col_dict,
          indices |-> Hstack([k \in 1 .. Len(group) |-> group[k].indices.rows]),
          samples |-> [k \in 1 .. Len(group) |-> group[k].samples],
          indexed |-> FALSE]

\* consolidate(dirpath, group)
consolidate(group) ==
    IF Cardinality({ el.matrix : el \in Range(group) }) # 1
    THEN [error |-> "AssertionError"]
    ELSE IF \E el \in Range(group) :
               NoKey \in {el.row_from_label, el.row_to_label, el.row_dict}
    THEN [error |-> "KeyError"]
    ELSE IF Cardinality({ <<el.row_from_label, el.row_to_label, el.row_dict>> :
                            el \in Range(group) }) # 1
    THEN [error |-> "ConflictingLabels"]
    ELSE IF /\ \E o \in Range(group) : o.col_dict # NoKey
            /\ \E el \in Range(group) :
                 NoKey \in {el.col_from_label, el.col_to_label, el.col_dict}
    THEN [error |-> "KeyError"]
    ELSE IF /\ \E o \in Range(group) : o.col_dict # NoKey
            /\ Cardinality({ <<el.col_from_label, el.col_to_label, el.col_dict>> :
                               el \in Range(group) }) # 1
    THEN [error |-> "ConflictingLabels"]
    ELSE IF Cardinality({ r.indices.dtype : r \in Range(group) }) # 1
    THEN [error |-> "IncompatibleIndices"]
    ELSE [type |-> group[1].type, matrix |-> group[1].matrix, names |-> group[1].names,
          row_from_label |-> group[1].row_from_label,
          row_to_label |-> group[1].row_to_label,
          row_dict |-> group[1].row_dict,
          col_from_label |-> group[1].col_from_label,
          col_to_label |-> group[1].col_to_label,
          col_dict |-> group[1].col_dict,
          indices |-> Hstack([k \in 1 .. Len(group) |-> group[k].indices.rows]),
          samples |-> [k \in 1 .. Len(group) |-> group[k].samples],
          indexed |-> FALSE]

\* SortByType putting a resource behind the later resources of its type
RECURSIVE SortByType_Unstable(_)
SortByType_Unstable(resources) ==
    IF resources = <<>> THEN <<>>
    ELSE LET rest == SortByType_Unstable(Tail(resources))
             x == Head(resources)
             IsBefore(r) == TypeRank(r.type) <= TypeRank(x.type)
             NotBefore(r) == ~IsBefore(r)
         IN  SelectSeq(rest, IsBefore) \o <<x>> \o SelectSeq(rest, NotBefore)

\* list.sort(key=type): a stable sort
RECURSIVE SortByType(_)
SortByType(resources) ==
    IF resources = <<>> THEN <<>>
    ELSE LET rest == SortByType(Tail(resources))
             x == Head(resources)
             IsBefore(r) == TypeRank(r.type) < TypeRank(x.type)
             NotBefore(r) == ~IsBefore(r)
         IN  SelectSeq(rest, IsBefore) \o <<x>> \o SelectSeq(rest, NotBefore)

\* itertools.groupby(resources, type): runs of equal type
RECURSIVE GroupBy(_)
GroupBy(resources) ==
    IF resources = <<>> THEN <<>>
    ELSE LET t == Head(resources).type
             n == CHOOSE k \in 1 .. Len(resources) :
                    /\ \A i \in 1 .. k : resources[i].type = t
                    /\ k = Len(resources) \/ resources[k + 1].type # t
         IN  <<SubSeq(resources, 1, n)>> \o GroupBy(SubSeq(resources, n + 1, Len(resources)))

\* get_seed handing on the seed of the call alone
get_seed_OverrideOnly(seed, x) == seed

\* get_seed testing the seed of the call for truth instead of for None
get_seed_Truthy(seed, x) == IF seed # Absent /\ Get(seed) # 0 THEN seed ELSE x

\* get_seed = lambda x: seed if seed is not None else x
get_seed(seed, x) == IF seed # Absent THEN seed ELSE x

\* load_data from the parsed datapackage.json on; `entropy` seeds an Indexer
\* that is given no seed. An exception of consolidate ends the call.
LoadMetadata(metadata, dirpath, seed, entropy) ==
    LET HasMatrix(obj) == obj.matrix # NoKey
        HasNames(obj) == obj.names # NoKey
        resources == SortByType(SelectSeq(metadata.resources, HasMatrix))
        groups == GroupBy(resources)
        matrix_data == [k \in 1 .. Len(groups) |-> consolidate(groups[k])]
        parameter_resources == SelectSeq(metadata.resources, HasNames)
    IN  IF \E k \in 1 .. Len(matrix_data) : IsError(matrix_data[k])
        THEN [error |-> matrix_data[CHOOSE k \in 1 .. Len(matrix_data) :
                           /\ IsError(matrix_data[k])
                           /\ \A j \in 1 .. (k - 1) : ~IsError(matrix_data[j])].error,
              name |-> metadata.name]
        ELSE [name |-> metadata.name,
              id |-> metadata.id,
              seed |-> metadata.seed,
              matrix_data |-> matrix_data,
              parameter_metadata |->
                  IF parameter_resources # <<>>
                  THEN Some([path |-> dirpath, resources |-> parameter_resources,
                             package_name |-> metadata.name])
                  ELSE Absent,
              indexer |-> Indexer(get_seed(seed, metadata.seed), entropy)]

\* load_data(dirpath, seed)
load_data(dirpath, seed, entropy) ==
    LoadMetadata(Datapackage[dirpath], dirpath, seed, entropy)

(* ------------------------------------------------------------------ *)
(* State                                                                *)
(* ------------------------------------------------------------------ *)

VARIABLES
    dirpaths,           \* the directories the loader was constructed from
    seed,               \* self.seed
    data,               \* self.data: the sections that have matrix data
    parameter_metadata, \* self.parameter_metadata
    sample_indexers,    \* self.sample_indexers: one Indexer per directory
    msi,                \* self.msi: references into sample_indexers
    psi,                \* self.psi: references into sample_indexers
    empty,              \* self.empty
    has_parameters,     \* hasattr(self, "_parameters")
    lca,                \* the caller's LCA object: its dictionaries and matrices
    twin,               \* the Indexers of a second loader built from the same arguments
    manifest,           \* the resources of a datapackage.json handed to load_data
    loaded              \* what load_data made of `manifest`, once it was called

vars == <<dirpaths, seed, data, parameter_metadata, sample_indexers, msi, psi,
          empty, has_parameters, lca, twin, manifest, loaded>>

loader == <<dirpaths, seed, data, parameter_metadata, sample_indexers, msi, psi,
            empty, has_parameters>>

(* ------------------------------------------------------------------ *)
(* __init__                                                             *)
(* ------------------------------------------------------------------ *)

HasMatrixData(section) == section.matrix_data # <<>>

HasParameterMetadata(section) == section.parameter_metadata # Absent

\* the positions of the sections with matrix data, in order
MatrixPositions(sections) ==
    LET Wanted(k) == HasMatrixData(sections[k])
    IN  SelectSeq([k \in 1 .. Len(sections) |-> k], Wanted)

\* the positions of the sections with parameter metadata, in order
ParameterPositions(sections) ==
    LET Wanted(k) == HasParameterMetadata(sections[k])
    IN  SelectSeq([k \in 1 .. Len(sections) |-> k], Wanted)

\* every section of __init__'s loop; the Indexer of section k is sample_indexers[k]
Sections(dirs, sd, entropy) ==
    [k \in 1 .. Len(dirs) |-> load_data(dirs[k], sd, entropy[k])]

\* self.data after the loop: the sections with matrix data; `indexer` refers
\* to the section's Indexer in sample_indexers
InitData(sections) ==
    LET keep == MatrixPositions(sections)
    IN  [j \in 1 .. Len(keep) |->
            [name |-> sections[keep[j]].name,
             matrix_data |-> sections[keep[j]].matrix_data,
             indexer |-> keep[j]]]

\* self.msi after the loop
InitMsi(sections) == MatrixPositions(sections)

\* self.psi after the loop
InitPsi(sections) == ParameterPositions(sections)

\* self.parameter_metadata after the loop
InitParameterMetadata(sections) ==
    LET keep == ParameterPositions(sections)
    IN  [j \in 1 .. Len(keep) |-> Get(sections[keep[j]].parameter_metadata)]

\* self.sample_indexers after the loop
InitSampleIndexers(sections) ==
    [k \in 1 .. Len(sections) |-> sections[k].indexer]

\* self.empty left at False whatever was loaded
InitEmpty_Never(d) == FALSE

\* self.empty
InitEmpty(d) == ~(d # <<>>)

\* a target before the caller has built anything on it
FreshLca == [generation |-> "first",
             dicts |-> [n \in DictNames |-> Absent],
             matrices |-> [n \in MatrixNames |-> Absent]]

\* the lists of directories a loader is constructed from: no directory twice
DirpathLists ==
    { dirs \in UNION { [1 .. n -> Dirpaths] : n \in 0 .. MaxPackages } :
        \A i, j \in DOMAIN dirs : dirs[i] = dirs[j] => i = j }

\* the entropy an unseeded Indexer of each directory draws
Entropies(dirs, sd) ==
    { entropy \in [1 .. Len(dirs) -> RngStates] :
        \A k \in 1 .. Len(dirs) :
            (sd # Absent \/ Datapackage[dirs[k]].seed # Absent) => entropy[k] = 0 }

Constructed(dirs, sd, entropy) ==
    LET sections == Sections(dirs, sd, entropy)
    IN  /\ \A k \in 1 .. Len(sections) : ~IsError(sections[k])
        /\ dirpaths = dirs
        /\ seed = sd
        /\ data = InitData(sections)
        /\ parameter_metadata = InitParameterMetadata(sections)
        /\ sample_indexers = InitSampleIndexers(sections)
        /\ msi = InitMsi(sections)
        /\ psi = InitPsi(sections)
        /\ empty = InitEmpty(InitData(sections))
        /\ has_parameters = FALSE

Init ==
    /\ \E dirs \in DirpathLists, sd \in Seeds :
         \E entropy \in Entropies(dirs, sd) : Constructed(dirs, sd, entropy)
    /\ lca = FreshLca
    /\ twin = <<>>
    /\ manifest = <<>>
    /\ loaded = Absent

(* ------------------------------------------------------------------ *)
(* The target                                                           *)
(* ------------------------------------------------------------------ *)

\* the object a call is handed: the caller's LCA object, or None
Targets == {"lca", None}

\* getattr(target, name) for a dictionary; Absent when hasattr is false
TargetDict(target, name) == IF target = None THEN Absent ELSE lca.dicts[name]

\* the values update_matrices accepts as `matrices`: None, or a collection of names
MatrixFilters == {Absent} \cup { Some(names) : names \in SUBSET MatrixNames }

(* ------------------------------------------------------------------ *)
(* index_arrays                                                         *)
(* ------------------------------------------------------------------ *)

\* index_with_arrays(indices[from_label], indices[to_label], mapping), in place
index_with_arrays(indices, from_label, to_label, mapping) ==
    [i \in 1 .. Len(indices) |->
        [indices[i] EXCEPT ![to_label] = mapping[indices[i][from_label]]]]

\* IndexElem without the check of elem.get('indexed')
IndexElem_NoIndexedCheck(elem, target) ==
    IF TargetDict(target, elem.row_dict) = Absent
    THEN elem
    ELSE IF elem.col_dict # NoKey /\ TargetDict(target, elem.col_dict) = Absent
    THEN elem
    ELSE LET rows == index_with_arrays(elem.indices, elem.row_from_label,
                                       elem.row_to_label,
                                       Get(TargetDict(target, elem.row_dict)))
             both == IF elem.col_dict # NoKey
                     THEN index_with_arrays(rows, elem.col_from_label,
                                            elem.col_to_label,
                                            Get(TargetDict(target, elem.col_dict)))
                     ELSE rows
         IN  [elem EXCEPT !.indices = both, !.indexed = TRUE]

\* IndexElem resolving the rows of an element whose column dictionary is
\* not built yet
IndexElem_RowsFirst(elem, target) ==
    IF elem.indexed
    THEN elem
    ELSE IF TargetDict(target, elem.row_dict) = Absent
    THEN elem
    ELSE LET rows == index_with_arrays(elem.indices, elem.row_from_label,
                                       elem.row_to_label,
                                       Get(TargetDict(target, elem.row_dict)))
         IN  IF elem.col_dict # NoKey /\ TargetDict(target, elem.col_dict) = Absent
             THEN [elem EXCEPT !.indices = rows]
             ELSE IF elem.col_dict # NoKey
             THEN [elem EXCEPT
                     !.indices = index_with_arrays(rows, elem.col_from_label,
                                     elem.col_to_label,
                                     Get(TargetDict(target, elem.col_dict))),
                     !.indexed = TRUE]
             ELSE [elem EXCEPT !.indices = rows, !.indexed = TRUE]

\* IndexElem looking the columns up in the row dictionary
IndexElem_RowDictForCols(elem, target) ==
    IF elem.indexed
    THEN elem
    ELSE IF TargetDict(target, elem.row_dict) = Absent
    THEN elem
    ELSE IF elem.col_dict # NoKey /\ TargetDict(target, elem.col_dict) = Absent
    THEN elem
    ELSE LET rows == index_with_arrays(elem.indices, elem.row_from_label,
                                       elem.row_to_label,
                                       Get(TargetDict(target, elem.row_dict)))
             both == IF elem.col_dict # NoKey
                     THEN index_with_arrays(rows, elem.col_from_label,
                                            elem.col_to_label,
                                            Get(TargetDict(target, elem.row_dict)))
                     ELSE rows
         IN  [elem EXCEPT !.indices = both, !.indexed = TRUE]

\* the body of index_arrays' inner loop for one element
IndexElem(elem, target) ==
    IF elem.indexed
    THEN elem
    ELSE IF TargetDict(target, elem.row_dict) = Absent
    THEN elem
    ELSE IF elem.col_dict # NoKey /\ TargetDict(target, elem.col_dict) = Absent
    THEN elem
    ELSE LET rows == index_with_arrays(elem.indices, elem.row_from_label,
                                       elem.row_to_label,
                                       Get(TargetDict(target, elem.row_dict)))
             both == IF elem.col_dict # NoKey
                     THEN index_with_arrays(rows, elem.col_from_label,
                                            elem.col_to_label,
                                            Get(TargetDict(target, elem.col_dict)))
                     ELSE rows
         IN  [elem EXCEPT !.indices = both, !.indexed = TRUE]

\* IndexedData leaving both loops at the first element it has to pass over
\* for want of a dictionary
IndexedData_Break(target) ==
    LET Skipped(elem) ==
            /\ ~elem.indexed
            /\ \/ TargetDict(target, elem.row_dict) = Absent
               \/ elem.col_dict # NoKey /\ TargetDict(target, elem.col_dict) = Absent
        Left(k, e) ==
            \E j \in 1 .. k : \E f \in 1 .. Len(data[j].matrix_data) :
                /\ j < k \/ f < e
                /\ Skipped(data[j].matrix_data[f])
    IN  [k \in 1 .. Len(data) |->
            [data[k] EXCEPT !.matrix_data =
                [e \in 1 .. Len(data[k].matrix_data) |->
                    IF Left(k, e) THEN data[k].matrix_data[e]
                    ELSE IndexElem(data[k].matrix_data[e], target)]]]

\* self.data after the loops of index_arrays
IndexedData(target) ==
    [k \in 1 .. Len(data) |->
        [data[k] EXCEPT !.matrix_data =
            [e \in 1 .. Len(data[k].matrix_data) |->
                IndexElem(data[k].matrix_data[e], target)]]]

\* @nonempty on index_arrays: the value of self.data when the call returns
NonemptyIndexed(target) == IF empty THEN data ELSE IndexedData(target)

index_arrays(target) ==
    /\ data' = NonemptyIndexed(target)
    /\ UNCHANGED <<dirpaths, seed, parameter_metadata, sample_indexers, msi, psi,
                   empty, has_parameters, lca, twin, manifest, loaded>>

(* ------------------------------------------------------------------ *)
(* update_matrices                                                      *)
(* ------------------------------------------------------------------ *)

\* fix_supply_use negating every record, whatever its type
fix_supply_use_NegateAll(indices, sample) ==
    [i \in 1 .. Len(sample) |-> -1 * sample[i]]

\* MatrixBuilder.fix_supply_use(indices, sample): inputs are consumed
fix_supply_use(indices, sample) ==
    [i \in 1 .. Len(sample) |->
        IF indices[i].type = TYPE_DICTIONARY.technosphere
        THEN -1 * sample[i]
        ELSE sample[i]]

\* matrix[rows, cols] = sample: element by element, in order
Assign(matrix, rows, cols, sample) ==
    [p \in DOMAIN matrix |->
        LET hits == { i \in 1 .. Len(sample) : <<rows[i], cols[i]>> = p }
        IN  IF hits = {} THEN matrix[p]
            ELSE sample[CHOOSE i \in hits : \A j \in hits : j <= i]]

\* the values update_matrices hands to the matrix for one element
SampleFor(elem, indexer) ==
    LET sample == Sample(elem.samples, indexer.index)
    IN  IF elem.type = "technosphere"
        THEN fix_supply_use(elem.indices, sample)
        ELSE sample

\* the first index of matrix[...] in update_matrices
RowPositions(elem) ==
    [i \in 1 .. Len(elem.indices) |-> elem.indices[i][elem.row_to_label]]

\* ColPositions pairing the rows of a group without column fields with the
\* rows taken in the opposite order
ColPositions_Reversed(elem) ==
    IF elem.col_dict # NoKey
    THEN [i \in 1 .. Len(elem.indices) |-> elem.indices[i][elem.col_to_label]]
    ELSE [i \in 1 .. Len(elem.indices) |->
            elem.indices[Len(elem.indices) + 1 - i][elem.row_to_label]]

\* the second index of matrix[...] in update_matrices
ColPositions(elem) ==
    IF elem.col_dict # NoKey
    THEN [i \in 1 .. Len(elem.indices) |-> elem.indices[i][elem.col_to_label]]
    ELSE RowPositions(elem)

\* UpdateElem writing matrix[cols, rows]
UpdateElem_Transposed(st, k, e, indexer, target, matrices) ==
    LET elem == data[k].matrix_data[e]
        matrix == IF target = None THEN Absent ELSE st.matrices[elem.matrix]
        sample == SampleFor(elem, indexer)
        rows == RowPositions(elem)
        cols == ColPositions(elem)
    IN  IF matrix = Absent
        THEN st
        ELSE IF matrices # Absent /\ elem.matrix \notin Get(matrices)
        THEN st
        ELSE IF \E i \in 1 .. Len(rows) : rows[i] \notin Pos \/ cols[i] \notin Pos
        THEN [st EXCEPT !.raised = "IndexError"]
        ELSE [st EXCEPT
                !.matrices[elem.matrix] = Some(Assign(Get(matrix), cols, rows, sample)),
                !.written = @ \o [i \in 1 .. Len(sample) |->
                                    [data |-> k, elem |-> e, record |-> i,
                                     matrix |-> elem.matrix, row |-> cols[i],
                                     col |-> rows[i], value |-> sample[i]]]]

\* UpdateElem letting the AttributeError of a missing matrix escape
UpdateElem_RaiseOnMissing(st, k, e, indexer, target, matrices) ==
    LET elem == data[k].matrix_data[e]
        matrix == IF target = None THEN Absent ELSE st.matrices[elem.matrix]
        sample == SampleFor(elem, indexer)
        rows == RowPositions(elem)
        cols == ColPositions(elem)
    IN  IF matrix = Absent
        THEN [st EXCEPT !.raised = "AttributeError"]
        ELSE IF matrices # Absent /\ elem.matrix \notin Get(matrices)
        THEN st
        ELSE IF \E i \in 1 .. Len(rows) : rows[i] \notin Pos \/ cols[i] \notin Pos
        THEN [st EXCEPT !.raised = "IndexError"]
        ELSE [st EXCEPT
                !.matrices[elem.matrix] = Some(Assign(Get(matrix), rows, cols, sample)),
                !.written = @ \o [i \in 1 .. Len(sample) |->
                                    [data |-> k, elem |-> e, record |-> i,
                                     matrix |-> elem.matrix, row |-> rows[i],
                                     col |-> cols[i], value |-> sample[i]]]]

\* UpdateElem without the test of `matrices`
UpdateElem_Unfiltered(st, k, e, indexer, target, matrices) ==
    LET elem == data[k].matrix_data[e]
        matrix == IF target = None THEN Absent ELSE st.matrices[elem.matrix]
        sample == SampleFor(elem, indexer)
        rows == RowPositions(elem)
        cols == ColPositions(elem)
    IN  IF matrix = Absent
        THEN st
        ELSE IF \E i \in 1 .. Len(rows) : rows[i] \notin Pos \/ cols[i] \notin Pos
        THEN [st EXCEPT !.raised = "IndexError"]
        ELSE [st EXCEPT
                !.matrices[elem.matrix] = Some(Assign(Get(matrix), rows, cols, sample)),
                !.written = @ \o [i \in 1 .. Len(sample) |->
                                    [data |-> k, elem |-> e, record |-> i,
                                     matrix |-> elem.matrix, row |-> rows[i],
                                     col |-> cols[i], value |-> sample[i]]]]

\* UpdateElem passing over an element with a position outside its matrix
UpdateElem_SkipOutOfRange(st, k, e, indexer, target, matrices) ==
    LET elem == data[k].matrix_data[e]
        matrix == IF target = None THEN Absent ELSE st.matrices[elem.matrix]
        sample == SampleFor(elem, indexer)
        rows == RowPositions(elem)
        cols == ColPositions(elem)
    IN  IF matrix = Absent
        THEN st
        ELSE IF matrices # Absent /\ elem.matrix \notin Get(matrices)
        THEN st
        ELSE IF \E i \in 1 .. Len(rows) : rows[i] \notin Pos \/ cols[i] \notin Pos
        THEN st
        ELSE [st EXCEPT
                !.matrices[elem.matrix] = Some(Assign(Get(matrix), rows, cols, sample)),
                !.written = @ \o [i \in 1 .. Len(sample) |->
                                    [data |-> k, elem |-> e, record |-> i,
                                     matrix |-> elem.matrix, row |-> rows[i],
                                     col |-> cols[i], value |-> sample[i]]]]

\* the body of update_matrices' inner loop for element e of data[k], sampled
\* with `indexer`; st holds the target's matrices, the writes so far (one per
\* record) and the exception raised, if any
UpdateElem(st, k, e, indexer, target, matrices) ==
    LET elem == data[k].matrix_data[e]
        matrix == IF target = None THEN Absent ELSE st.matrices[elem.matrix]
        sample == SampleFor(elem, indexer)
        rows == RowPositions(elem)
        cols == ColPositions(elem)
    IN  IF matrix = Absent
        THEN st
        ELSE IF matrices # Absent /\ elem.matrix \notin Get(matrices)
        THEN st
        ELSE IF \E i \in 1 .. Len(rows) : rows[i] \notin Pos \/ cols[i] \notin Pos
        THEN [st EXCEPT !.raised = "IndexError"]
        ELSE [st EXCEPT
                !.matrices[elem.matrix] = Some(Assign(Get(matrix), rows, cols, sample)),
                !.written = @ \o [i \in 1 .. Len(sample) |->
                                    [data |-> k, elem |-> e, record |-> i,
                                     matrix |-> elem.matrix, row |-> rows[i],
                                     col |-> cols[i], value |-> sample[i]]]]

\* the inner loop over obj["matrix-data"], from element e on
RECURSIVE UpdateElems(_, _, _, _, _, _)
UpdateElems(st, k, e, indexer, target, matrices) ==
    IF st.raised # None \/ e > Len(data[k].matrix_data)
    THEN st
    ELSE UpdateElems(UpdateElem(st, k, e, indexer, target, matrices),
                     k, e + 1, indexer, target, matrices)

\* UpdateIndexers zipping self.sample_indexers with self.data
UpdateIndexers_Unfiltered == sample_indexers

\* the indexers update_matrices zips with self.data
UpdateIndexers == [j \in 1 .. Len(msi) |-> sample_indexers[msi[j]]]

\* the outer loop over zip(self.msi, self.data), from pair k on
RECURSIVE UpdatePairs(_, _, _, _)
UpdatePairs(st, k, target, matrices) ==
    IF st.raised # None \/ k > Len(data) \/ k > Len(UpdateIndexers)
    THEN st
    ELSE UpdatePairs(UpdateElems(st, k, 1, UpdateIndexers[k], target, matrices),
                     k + 1, target, matrices)

\* the state update_matrices starts from: nothing written, nothing raised
UpdateStart == [matrices |-> lca.matrices, written |-> <<>>, raised |-> None]

\* what update_matrices(target, matrices) does, @nonempty included: the
\* target's matrices when the call ends, its writes, and the exception it
\* raised, if any
Updated(target, matrices) ==
    IF empty THEN UpdateStart ELSE UpdatePairs(UpdateStart, 1, target, matrices)

\* self.sample_indexers after the loop over it
AdvancedIndexers(indexers) ==
    [k \in 1 .. Len(indexers) |-> IndexerNext(indexers[k])]

\* update_matrices moving every Indexer on after its writes
update_matrices_Advancing(target, matrices) ==
    /\ lca' = [lca EXCEPT !.matrices = Updated(target, matrices).matrices]
    /\ sample_indexers' = AdvancedIndexers(sample_indexers)
    /\ UNCHANGED <<dirpaths, seed, data, parameter_metadata, msi, psi, empty,
                   has_parameters, twin, manifest, loaded>>

update_matrices(target, matrices) ==
    /\ lca' = [lca EXCEPT !.matrices = Updated(target, matrices).matrices]
    /\ UNCHANGED <<loader, twin, manifest, loaded>>

(* ------------------------------------------------------------------ *)
(* update_sample_indices and parameters                                 *)
(* ------------------------------------------------------------------ *)

\* the exception update_sample_indices raises after its first loop, if any:
\* zip(self.psi, self.parameters) is handed a bound method
AdvanceRaises == IF has_parameters THEN "TypeError" ELSE None

update_sample_indices ==
    /\ \A k \in 1 .. Len(sample_indexers) : sample_indexers[k].count < MaxAdvance
    /\ sample_indexers' = AdvancedIndexers(sample_indexers)
    /\ UNCHANGED <<dirpaths, seed, data, parameter_metadata, msi, psi, empty,
                   has_parameters, lca, twin, manifest, loaded>>

parameters ==
    /\ has_parameters' = TRUE
    /\ UNCHANGED <<dirpaths, seed, data, parameter_metadata, sample_indexers, msi,
                   psi, empty, lca, twin, manifest, loaded>>

(* ------------------------------------------------------------------ *)
(* The caller building the target                                       *)
(* ------------------------------------------------------------------ *)

\* lca.<name> = {...}: a dictionary is built
BuildDict(name) ==
    /\ lca.dicts[name] = Absent
    /\ lca' = [lca EXCEPT !.dicts[name] = Some(Mapping(name, lca.generation))]
    /\ UNCHANGED <<loader, twin, manifest, loaded>>

\* the dictionaries the target has are replaced by those of another build
RebuildDicts(generation) ==
    /\ generation # lca.generation
    /\ lca' = [lca EXCEPT
                 !.generation = generation,
                 !.dicts = [n \in DictNames |->
                              IF lca.dicts[n] = Absent THEN Absent
                              ELSE Some(Mapping(n, generation))]]
    /\ UNCHANGED <<loader, twin, manifest, loaded>>

\* lca.<name> = a matrix of zeros: a matrix is built, or rebuilt
BuildMatrix(name) ==
    /\ lca' = [lca EXCEPT !.matrices[name] = Some(ZeroMatrix)]
    /\ UNCHANGED <<loader, twin, manifest, loaded>>

Next ==
    \/ \E target \in Targets : index_arrays(target)
    \/ \E target \in Targets, matrices \in MatrixFilters : update_matrices(target, matrices)
    \/ update_sample_indices
    \/ parameters
    \/ \E name \in DictNames : BuildDict(name)
    \/ \E generation \in Generations : RebuildDicts(generation)
    \/ \E name \in MatrixNames : BuildMatrix(name)

Spec == Init /\ [][Next]_vars

(* ------------------------------------------------------------------ *)
(* Two loaders constructed from the same arguments                      *)
(* ------------------------------------------------------------------ *)

\* the entropy of the machine at a construction, whatever the seeds: every
\* Indexer may be handed every state, one after the other
AnyEntropies(dirs) ==
    { [k \in 1 .. Len(dirs) |-> (e + k) % 4] : e \in RngStates }

\* PackagesDataLoader(dirs, sd) is called twice: `twin` holds the
\* sample_indexers of the second loader
InitTwin ==
    /\ \E dirs \in DirpathLists, sd \in Seeds :
         \E entropy \in AnyEntropies(dirs), other \in AnyEntropies(dirs) :
            /\ Constructed(dirs, sd, entropy)
            /\ \A k \in 1 .. Len(dirs) : ~IsError(Sections(dirs, sd, other)[k])
            /\ twin = InitSampleIndexers(Sections(dirs, sd, other))
    /\ lca = FreshLca
    /\ manifest = <<>>
    /\ loaded = Absent

\* update_sample_indices of the second loader
twin_update_sample_indices ==
    /\ \A k \in 1 .. Len(twin) : twin[k].count < MaxAdvance
    /\ twin' = AdvancedIndexers(twin)
    /\ UNCHANGED <<loader, lca, manifest, loaded>>

NextTwin ==
    \/ update_sample_indices
    \/ twin_update_sample_indices

SpecTwin == InitTwin /\ [][NextTwin]_vars

(* ------------------------------------------------------------------ *)
(* load_data on the resources of one datapackage.json                   *)
(* ------------------------------------------------------------------ *)

\* longest list of resources of a datapackage.json
MaxResources == 3

\* the resources a datapackage.json may list
ResourceKinds ==
    {"tech", "tech_untyped", "tech_other_cols", "tech_rows_only", "tech_other_rows",
     "tech_other_matrix", "cf", "cf_typed", "names", "other"}

\* the resource of a kind listed at position k: its one record carries the
\* identifier k, its samples start at 100 * k
ResourceAt(kind, k) ==
    LET tech == TechnosphereResource(<< <<k, k, TYPE_DICTIONARY.production>> >>, 100 * k)
        cf == CfResource(<<k>>, 100 * k)
    IN  CASE kind = "tech" -> tech
          [] kind = "tech_untyped" ->
                [tech EXCEPT !.indices =
                    [dtype |-> <<"input", "output", "row", "col">>,
                     rows |-> <<[input |-> k, output |-> k, row |-> k, col |-> k]>>]]
          [] kind = "tech_other_cols" -> [tech EXCEPT !.col_dict = "_biosphere_dict"]
          [] kind = "tech_rows_only" ->
                [tech EXCEPT !.col_from_label = NoKey, !.col_to_label = NoKey,
                             !.col_dict = NoKey]
          [] kind = "tech_other_rows" -> [tech EXCEPT !.row_dict = "_activity_dict"]
          [] kind = "tech_other_matrix" -> [tech EXCEPT !.matrix = "characterization_matrix"]
          [] kind = "cf" -> cf
          [] kind = "cf_typed" ->
                [cf EXCEPT !.indices =
                    [dtype |-> <<"flow", "row", "type">>,
                     rows |-> <<[flow |-> k, row |-> k, type |-> TYPE_DICTIONARY.biosphere]>>]]
          [] kind = "names" -> ParameterResource
          [] OTHER -> OtherResource

\* a datapackage.json with some resources is on disk; load_data was not called
InitLoad ==
    /\ \E kinds \in UNION { [1 .. n -> ResourceKinds] : n \in 0 .. MaxResources } :
          manifest = [k \in 1 .. Len(kinds) |-> ResourceAt(kinds[k], k)]
    /\ loaded = Absent
    /\ Constructed(<<>>, Absent, <<>>)
    /\ lca = FreshLca
    /\ twin = <<>>

\* load_data(dirpath) on that directory
load_manifest ==
    /\ loaded = Absent
    /\ loaded' = Some(LoadMetadata([name |-> "manifest", id |-> "manifest",
                                    seed |-> Absent, resources |-> manifest],
                                   "manifest", Absent, 0))
    /\ UNCHANGED <<loader, lca, twin, manifest>>

NextLoad == load_manifest

SpecLoad == InitLoad /\ [][NextLoad]_vars

(* ------------------------------------------------------------------ *)
(* Properties                                                           *)
(* ------------------------------------------------------------------ *)

\* the elements (resource groups) of the loader: element e of data[k]
Elems == { ke \in (1 .. Len(data)) \X (1 .. 3) : ke[2] <= Len(data[ke[1]].matrix_data) }

Elem(ke) == data[ke[1]].matrix_data[ke[2]]

HasCols(elem) == elem.col_dict # NoKey

\* the target lacks a dictionary the element needs
LacksDict(target, elem) ==
    \/ target = None
    \/ lca.dicts[elem.row_dict] = Absent
    \/ HasCols(elem) /\ lca.dicts[elem.col_dict] = Absent

\* the identifier table of `elem` resolved with the dictionaries of a build
ResolvedTable(elem, generation) ==
    [i \in 1 .. Len(elem.indices) |->
        LET rec == elem.indices[i]
            rows == [rec EXCEPT ![elem.row_to_label] =
                        Mapping(elem.row_dict, generation)[rec[elem.row_from_label]]]
        IN  IF HasCols(elem)
            THEN [rows EXCEPT ![elem.col_to_label] =
                        Mapping(elem.col_dict, generation)[rec[elem.col_from_label]]]
            ELSE rows]

OtherGeneration == CHOOSE g \in Generations : g # lca.generation

\* C1: once an element is indexed, no call and no change of the target's
\* dictionaries changes its identifier table or its indexed flag
C1_IndexedOnce ==
    [][\A ke \in Elems :
          Elem(ke).indexed => data'[ke[1]].matrix_data[ke[2]] = Elem(ke)]_vars

\* C1 witness: the dictionaries were rebuilt after one element was indexed,
\* and a later index_arrays resolved another element with the rebuilt ones
\* and left the first as it was
C1_Witness ==
    \E a \in Elems, b \in Elems :
        /\ Elem(a).indexed /\ Elem(b).indexed
        /\ Elem(a).indices = ResolvedTable(Elem(a), OtherGeneration)
        /\ Elem(a).indices # ResolvedTable(Elem(a), lca.generation)
        /\ Elem(b).indices = ResolvedTable(Elem(b), lca.generation)
        /\ Elem(b).indices # ResolvedTable(Elem(b), OtherGeneration)

\* C2: index_arrays leaves an unindexed element whose row dictionary, or whose
\* column dictionary when it declares column fields, is missing on the target
\* exactly as it was, and indexes every unindexed element whose dictionaries
\* are all there
C2_ResolutionGating ==
    [][\A target \in Targets :
          index_arrays(target) =>
             \A ke \in Elems :
                ~Elem(ke).indexed =>
                   /\ LacksDict(target, Elem(ke)) =>
                         data'[ke[1]].matrix_data[ke[2]] = Elem(ke)
                   /\ ~LacksDict(target, Elem(ke)) =>
                         data'[ke[1]].matrix_data[ke[2]].indexed]_vars

\* C2 witness: index_arrays has indexed one element and skipped another whose
\* row dictionary is built and whose column dictionary is not
C2_Witness ==
    \E a \in Elems, b \in Elems :
        /\ Elem(a).indexed
        /\ ~Elem(b).indexed
        /\ HasCols(Elem(b))
        /\ lca.dicts[Elem(b).row_dict] # Absent
        /\ lca.dicts[Elem(b).col_dict] = Absent

\* C3: the index_arrays call that indexes an element sets, for every record,
\* the row field to the row dictionary's position of the raw row identifier
\* and, when column fields are declared, the column field to the column
\* dictionary's position of the raw column identifier, and changes no other
\* field
C3_ResolvedPositions ==
    [][\A target \in Targets :
          index_arrays(target) =>
             \A ke \in Elems :
                LET old == Elem(ke)
                    new == data'[ke[1]].matrix_data[ke[2]]
                IN  (~old.indexed /\ new.indexed) =>
                       /\ Len(new.indices) = Len(old.indices)
                       /\ \A i \in 1 .. Len(old.indices) :
                             /\ new.indices[i][old.row_to_label] =
                                   Get(lca.dicts[old.row_dict])[old.indices[i][old.row_from_label]]
                             /\ HasCols(old) =>
                                   new.indices[i][old.col_to_label] =
                                      Get(lca.dicts[old.col_dict])[old.indices[i][old.col_from_label]]
                             /\ \A field \in DOMAIN old.indices[i] :
                                   field \notin {old.row_to_label, old.col_to_label} =>
                                      new.indices[i][field] = old.indices[i][field]]_vars

\* C3 witness: an indexed element with column fields whose row and column
\* positions are those of the dictionaries and differ from the raw identifiers
C3_Witness ==
    \E ke \in Elems :
        /\ Elem(ke).indexed
        /\ HasCols(Elem(ke))
        /\ Elem(ke).indices = ResolvedTable(Elem(ke), lca.generation)
        /\ \E i \in 1 .. Len(Elem(ke).indices) :
              LET rec == Elem(ke).indices[i]
              IN  /\ rec[Elem(ke).row_to_label] # rec[Elem(ke).row_from_label]
                  /\ rec[Elem(ke).col_to_label] # rec[Elem(ke).col_from_label]
                  /\ rec[Elem(ke).row_to_label] # rec[Elem(ke).col_to_label]

(* ------------------------------------------------------------------ *)
(* Properties of update_matrices                                        *)
(* ------------------------------------------------------------------ *)

\* the calls of update_matrices: <<target, matrices>>
Calls == Targets \X MatrixFilters

\* the Indexer of the package that data[k] was loaded from
OwnIndexer(k) ==
    sample_indexers[CHOOSE p \in 1 .. Len(dirpaths) :
                       Datapackage[dirpaths[p]].name = data[k].name]

Records(ke) == 1 .. Len(Elem(ke).indices)

\* the sampled values of an element: the column of its samples at the current
\* index of its package's Indexer
RawSample(ke) == Sample(Elem(ke).samples, OwnIndexer(ke[1]).index)

\* record i of a technosphere element is an input (a consumer record)
IsConsumer(ke, i) ==
    /\ Elem(ke).type = "technosphere"
    /\ Elem(ke).indices[i].type = TYPE_DICTIONARY.technosphere

\* the value update_matrices is to write for record i
WrittenValue(ke, i) ==
    IF IsConsumer(ke, i) THEN 0 - RawSample(ke)[i] ELSE RawSample(ke)[i]

RowOf(ke, i) == Elem(ke).indices[i][Elem(ke).row_to_label]

ColOf(ke, i) ==
    IF HasCols(Elem(ke)) THEN Elem(ke).indices[i][Elem(ke).col_to_label]
    ELSE RowOf(ke, i)

\* the target of the call has the element's matrix
HasMatrix(call, ke) == call[1] # None /\ lca.matrices[Elem(ke).matrix] # Absent

\* the call writes the element: the target has its matrix and the filter,
\* if any, names it
Reaches(call, ke) ==
    /\ HasMatrix(call, ke)
    /\ call[2] = Absent \/ Elem(ke).matrix \in Get(call[2])

\* every position of the element is a position of the matrix
InRange(ke) == \A i \in Records(ke) : RowOf(ke, i) \in Pos /\ ColOf(ke, i) \in Pos

\* no position the call writes at is outside the matrix
Returns(call) == \A ke \in Elems : Reaches(call, ke) => InRange(ke)

\* the records the call writes: <<element, record>>
Writes(call) ==
    UNION { { <<ke, i>> : i \in Records(ke) } : ke \in { x \in Elems : Reaches(call, x) } }

\* write a comes after write b: packages in order, their elements in order,
\* the records of an element in order
Later(a, b) ==
    \/ a[1][1] > b[1][1]
    \/ a[1][1] = b[1][1] /\ a[1][2] > b[1][2]
    \/ a[1] = b[1] /\ a[2] > b[2]

CellOf(w) == <<RowOf(w[1], w[2]), ColOf(w[1], w[2])>>

SameCell(a, b) == Elem(a[1]).matrix = Elem(b[1]).matrix /\ CellOf(a) = CellOf(b)

\* the last write of the call to the cell that w is written to
LastWrite(call, w) ==
    CHOOSE x \in Writes(call) :
        /\ SameCell(x, w)
        /\ \A y \in Writes(call) : SameCell(y, w) => (y = x \/ Later(x, y))

\* the writes of the call for the elements with column fields of package k
\* that are bound to matrix m
PackageWrites(call, k, m) ==
    { w \in Writes(call) :
        w[1][1] = k /\ HasCols(Elem(w[1])) /\ Elem(w[1]).matrix = m }

RECURSIVE SumCells(_, _)
SumCells(matrix, cells) ==
    IF cells = {} THEN 0
    ELSE LET c == CHOOSE x \in cells : TRUE
         IN  matrix[c] + SumCells(matrix, cells \ {c})

RECURSIVE SumRaw(_)
SumRaw(ws) ==
    IF ws = {} THEN 0
    ELSE LET w == CHOOSE x \in ws : TRUE
         IN  RawSample(w[1])[w[2]] + SumRaw(ws \ {w})

RECURSIVE SumWritten(_)
SumWritten(ws) ==
    IF ws = {} THEN 0
    ELSE LET w == CHOOSE x \in ws : TRUE
         IN  WrittenValue(w[1], w[2]) + SumWritten(ws \ {w})

\* C4 as stated: after an update_matrices that returns, the cell of every
\* resolved pair of an element with column fields holds the sampled value of
\* its record, and the cells written for a package sum to the sampled values
\* of the package
C4_Original ==
    \A call \in Calls :
        Returns(call) =>
            LET r == Updated(call[1], call[2])
            IN  /\ \A w \in Writes(call) :
                      HasCols(Elem(w[1])) =>
                         Get(r.matrices[Elem(w[1]).matrix])[CellOf(w)] =
                            RawSample(w[1])[w[2]]
                /\ \A k \in 1 .. Len(data), m \in MatrixNames :
                      LET ws == PackageWrites(call, k, m)
                      IN  ws # {} =>
                             SumCells(Get(r.matrices[m]), { CellOf(w) : w \in ws }) =
                                SumRaw(ws)

\* C4: after an update_matrices that returns, the cell of every resolved pair
\* of an element with column fields holds the value written for the last
\* record written to that cell, a record's value being its sampled value,
\* negated for the consumer records of a technosphere element; when every
\* record of a package is the last one written to its cell, the cells
\* written for the package sum to the values written for its records
C4_OffDiagonalInjection ==
    \A call \in Calls :
        Returns(call) =>
            LET r == Updated(call[1], call[2])
            IN  /\ \A w \in Writes(call) :
                      HasCols(Elem(w[1])) =>
                         LET last == LastWrite(call, w)
                         IN  Get(r.matrices[Elem(w[1]).matrix])
                                [<<RowOf(w[1], w[2]),
                                   Elem(w[1]).indices[w[2]][Elem(w[1]).col_to_label]>>] =
                                WrittenValue(last[1], last[2])
                /\ \A k \in 1 .. Len(data), m \in MatrixNames :
                      LET ws == PackageWrites(call, k, m)
                      IN  (ws # {} /\ \A w \in ws : LastWrite(call, w) = w) =>
                             SumCells(Get(r.matrices[m]), { CellOf(w) : w \in ws }) =
                                SumWritten(ws)

\* C4 witness: two records of an indexed element with column fields resolve to
\* one cell, and the matrix holds there the value of the later record, which
\* is not the sampled value of the earlier one
C4_Witness ==
    \E ke \in Elems :
        /\ HasCols(Elem(ke))
        /\ Elem(ke).indexed
        /\ InRange(ke)
        /\ lca.matrices[Elem(ke).matrix] # Absent
        /\ \E i \in Records(ke), j \in Records(ke) :
              /\ i < j
              /\ CellOf(<<ke, i>>) = CellOf(<<ke, j>>)
              /\ \A n \in Records(ke) : CellOf(<<ke, n>>) = CellOf(<<ke, j>>) => n <= j
              /\ Get(lca.matrices[Elem(ke).matrix])[CellOf(<<ke, j>>)] = WrittenValue(ke, j)
              /\ WrittenValue(ke, j) # RawSample(ke)[i]

\* the entries of the writes of a call that belong to an element
WritesOf(r, ke) ==
    { n \in 1 .. Len(r.written) :
        r.written[n].data = ke[1] /\ r.written[n].elem = ke[2] }

\* the elements without column fields
Diagonal(ke) == ~HasCols(Elem(ke))

\* C5: an update_matrices that returns writes, for every record of an element
\* without column fields that it reaches, the record's sampled value at
\* matrix[p, p], p being the record's row position, and writes nothing for
\* the element elsewhere; the last of the records written at p leaves its
\* value there, and a matrix that only such elements are written to keeps
\* every off-diagonal cell
C5_DiagonalInjection ==
    \A call \in Calls :
        Returns(call) =>
            LET r == Updated(call[1], call[2])
            IN  \A ke \in Elems :
                   (Diagonal(ke) /\ Reaches(call, ke)) =>
                      LET m == Elem(ke).matrix
                      IN  /\ \A i \in Records(ke) :
                                \E n \in WritesOf(r, ke) :
                                   /\ r.written[n].record = i
                                   /\ r.written[n].matrix = m
                                   /\ r.written[n].row = RowOf(ke, i)
                                   /\ r.written[n].col = RowOf(ke, i)
                                   /\ r.written[n].value = WrittenValue(ke, i)
                          /\ \A n \in WritesOf(r, ke) : r.written[n].row = r.written[n].col
                          /\ Cardinality(WritesOf(r, ke)) = Len(Elem(ke).indices)
                          /\ \A i \in Records(ke) :
                                LastWrite(call, <<ke, i>>) = <<ke, i>> =>
                                   Get(r.matrices[m])[<<RowOf(ke, i), RowOf(ke, i)>>] =
                                      WrittenValue(ke, i)
                          /\ (\A x \in Elems :
                                 (Reaches(call, x) /\ Elem(x).matrix = m) => Diagonal(x)) =>
                                \A cell \in Pos \X Pos :
                                   cell[1] # cell[2] =>
                                      Get(r.matrices[m])[cell] = Get(lca.matrices[m])[cell]

\* C5 witness: the matrix of an indexed element without column fields holds
\* the sampled values of two of its records on its diagonal, at positions
\* that are not the raw identifiers, and zero in every other cell
C5_Witness ==
    \E ke \in Elems :
        /\ Diagonal(ke)
        /\ Elem(ke).indexed
        /\ lca.matrices[Elem(ke).matrix] # Absent
        /\ InRange(ke)
        /\ \E i \in Records(ke), j \in Records(ke) : RowOf(ke, i) # RowOf(ke, j)
        /\ \A i \in Records(ke) :
              /\ RowOf(ke, i) # Elem(ke).indices[i][Elem(ke).row_from_label]
              /\ Get(lca.matrices[Elem(ke).matrix])[<<RowOf(ke, i), RowOf(ke, i)>>] =
                    RawSample(ke)[i]
        /\ \A cell \in Pos \X Pos :
              cell[1] # cell[2] => Get(lca.matrices[Elem(ke).matrix])[cell] = 0

\* the values the samples of an element hold for record i, one per column
ColumnValues(ke, i) == { Sample(Elem(ke).samples, index)[i] : index \in 0 .. (NCols - 1) }

\* C6: every value update_matrices writes for a consumer record of a
\* technosphere element is a sampled value of the record negated, and every
\* value it writes for any other record, and for any record of an element of
\* another type, is a sampled value of the record as it is; a call that
\* returns writes a value for every record of every element it reaches
C6_TechnosphereSign ==
    \A call \in Calls :
        LET r == Updated(call[1], call[2])
        IN  /\ \A n \in 1 .. Len(r.written) :
                  LET w == r.written[n]
                      ke == <<w.data, w.elem>>
                      rec == Elem(ke).indices[w.record]
                  IN  IF Elem(ke).type = "technosphere"
                      THEN IF rec.type = TYPE_DICTIONARY.technosphere
                           THEN (0 - w.value) \in ColumnValues(ke, w.record)
                           ELSE w.value \in ColumnValues(ke, w.record)
                      ELSE w.value \in ColumnValues(ke, w.record)
            /\ Returns(call) =>
                  \A w \in Writes(call) :
                     \E n \in WritesOf(r, w[1]) : r.written[n].record = w[2]

\* C6 witness: the technosphere matrix holds the negated sampled value of a
\* consumer record and the sampled values of a producer record and of a
\* substitution record of one indexed element
C6_Witness ==
    \E ke \in Elems :
        /\ Elem(ke).type = "technosphere"
        /\ Elem(ke).indexed
        /\ InRange(ke)
        /\ lca.matrices[Elem(ke).matrix] # Absent
        /\ \E a \in Records(ke), b \in Records(ke), c \in Records(ke) :
              /\ Elem(ke).indices[a].type = TYPE_DICTIONARY.technosphere
              /\ Elem(ke).indices[b].type = TYPE_DICTIONARY.production
              /\ Elem(ke).indices[c].type = TYPE_DICTIONARY.substitution
              /\ Get(lca.matrices[Elem(ke).matrix])[CellOf(<<ke, a>>)] = 0 - RawSample(ke)[a]
              /\ Get(lca.matrices[Elem(ke).matrix])[CellOf(<<ke, b>>)] = RawSample(ke)[b]
              /\ Get(lca.matrices[Elem(ke).matrix])[CellOf(<<ke, c>>)] = RawSample(ke)[c]

\* C7: update_matrices writes nothing for an element whose matrix the target
\* lacks and raises nothing for it: a matrix the target lacks is still
\* lacking, every matrix that no element reaches is as it was, the only
\* exception is the IndexError of a position outside a matrix that is
\* written, and a call that meets no such position returns having written
\* every record of every element it reaches
C7_MissingMatrixSkip ==
    \A call \in Calls :
        LET r == Updated(call[1], call[2])
        IN  /\ \A ke \in Elems : ~HasMatrix(call, ke) => WritesOf(r, ke) = {}
            /\ \A m \in MatrixNames :
                  lca.matrices[m] = Absent => r.matrices[m] = Absent
            /\ \A m \in MatrixNames :
                  (\A ke \in Elems : Reaches(call, ke) => Elem(ke).matrix # m) =>
                     r.matrices[m] = lca.matrices[m]
            /\ r.raised \in {None, "IndexError"}
            /\ Returns(call) =>
                  /\ r.raised = None
                  /\ \A w \in Writes(call) :
                        \E n \in WritesOf(r, w[1]) :
                           /\ r.written[n].record = w[2]
                           /\ r.written[n].value = WrittenValue(w[1], w[2])

\* C7 witness: the target lacks the matrix of the first element of a package
\* and holds, in the matrix of a later element of the package, a value
\* written for that element
C7_Witness ==
    \E a \in Elems, b \in Elems :
        /\ a[1] = b[1]
        /\ a[2] < b[2]
        /\ lca.matrices[Elem(a).matrix] = Absent
        /\ lca.matrices[Elem(b).matrix] # Absent
        /\ InRange(b)
        /\ \E i \in Records(b) :
              /\ LastWrite(<<"lca", Absent>>, <<b, i>>) = <<b, i>>
              /\ Get(lca.matrices[Elem(b).matrix])[CellOf(<<b, i>>)] = WrittenValue(b, i)

(* ------------------------------------------------------------------ *)
(* Properties of the loader as a whole                                  *)
(* ------------------------------------------------------------------ *)

\* no resource of any loaded package is bound to a matrix
HoldsNoGroup ==
    \A p \in 1 .. Len(dirpaths) :
        \A n \in 1 .. Len(Datapackage[dirpaths[p]].resources) :
            Datapackage[dirpaths[p]].resources[n].matrix = NoKey

\* C8: self.empty is true exactly when no loaded package has a resource bound
\* to a matrix, and on an empty loader index_arrays changes nothing and
\* update_matrices writes nothing, changes no matrix and raises nothing,
\* whatever the target, None included
C8_EmptyLoader ==
    /\ empty <=> HoldsNoGroup
    /\ empty =>
          /\ \A target \in Targets : NonemptyIndexed(target) = data
          /\ \A call \in Calls :
                LET r == Updated(call[1], call[2])
                IN  r.written = <<>> /\ r.raised = None /\ r.matrices = lca.matrices

\* C8 witness: an empty loader of two packages, one of them with named
\* parameters, next to a target with a matrix and a dictionary built
C8_Witness ==
    /\ empty
    /\ Len(dirpaths) = 2
    /\ parameter_metadata # <<>>
    /\ lca.matrices["technosphere_matrix"] # Absent
    /\ lca.dicts["_product_dict"] # Absent

\* C9: every value update_matrices writes for a record of an element is,
\* up to its sign, the record's sampled value at the current index of the
\* Indexer of the element's own package; the loader holds one Indexer per
\* directory, all advanced equally often, and update_sample_indices advances
\* each of them by one step
C9_PerPackageIndex ==
    /\ Len(sample_indexers) = Len(dirpaths)
    /\ \A p \in 1 .. Len(sample_indexers), q \in 1 .. Len(sample_indexers) :
          sample_indexers[p].count = sample_indexers[q].count
    /\ LET advanced == AdvancedIndexers(sample_indexers)
       IN  /\ Len(advanced) = Len(dirpaths)
           /\ \A p \in 1 .. Len(advanced) :
                 /\ advanced[p].count = sample_indexers[p].count + 1
                 /\ advanced[p] = IndexerNext(sample_indexers[p])
    /\ \A call \in Calls :
          LET r == Updated(call[1], call[2])
          IN  \A n \in 1 .. Len(r.written) :
                 LET w == r.written[n]
                     v == RawSample(<<w.data, w.elem>>)[w.record]
                 IN  w.value \in {v, 0 - v}

\* C9 witness: a package without matrix data was loaded before a package with
\* matrix data, the Indexers were advanced and point at different columns,
\* and a matrix holds a value of the second package sampled at that
\* package's own index
C9_Witness ==
    \E ke \in Elems :
        /\ Datapackage[dirpaths[ke[1]]].name # data[ke[1]].name
        /\ OwnIndexer(ke[1]).count > 0
        /\ OwnIndexer(ke[1]).index # sample_indexers[ke[1]].index
        /\ lca.matrices[Elem(ke).matrix] # Absent
        /\ InRange(ke)
        /\ \E i \in Records(ke) :
              /\ LastWrite(<<"lca", Absent>>, <<ke, i>>) = <<ke, i>>
              /\ Get(lca.matrices[Elem(ke).matrix])[CellOf(<<ke, i>>)] = WrittenValue(ke, i)

\* the seed the Indexer of the package at position p is given
EffectiveSeed(p) == IF seed # Absent THEN seed ELSE Datapackage[dirpaths[p]].seed

\* the elements of the package at position p
ElemsOf(p) == { ke \in Elems : data[ke[1]].name = Datapackage[dirpaths[p]].name }

\* C10: of two loaders constructed from the same directories and the same
\* seed, the Indexers of a package that is given a seed point, after equally
\* many update_sample_indices calls, at the same index, so that every element
\* of the package is sampled to the same values in both loaders
C10_Determinism ==
    \A p \in 1 .. Len(dirpaths) :
        (EffectiveSeed(p) # Absent /\ twin[p].count = sample_indexers[p].count) =>
            /\ twin[p].index = sample_indexers[p].index
            /\ twin[p].seed_value = sample_indexers[p].seed_value
            /\ \A ke \in ElemsOf(p) :
                  Sample(Elem(ke).samples, twin[p].index) =
                     Sample(Elem(ke).samples, sample_indexers[p].index)

\* C10 witness: both loaders were advanced as often as can be followed, hold
\* a seeded package with matrix data whose index has moved since construction,
\* and an unseeded package whose Indexers disagree
C10_Witness ==
    \E p \in 1 .. Len(dirpaths), q \in 1 .. Len(dirpaths) :
        /\ EffectiveSeed(p) # Absent
        /\ ElemsOf(p) # {}
        /\ sample_indexers[p].count = MaxAdvance
        /\ twin[p].count = MaxAdvance
        /\ twin[p].index # Indexer(EffectiveSeed(p), 0).index
        /\ EffectiveSeed(q) = Absent
        /\ twin[q].count = sample_indexers[q].count
        /\ twin[q].index # sample_indexers[q].index

(* ------------------------------------------------------------------ *)
(* Properties of load_data and consolidate                              *)
(* ------------------------------------------------------------------ *)

\* the resources of the manifest that are bound to a matrix, in manifest order
MatrixBound ==
    LET Bound(r) == r.matrix # NoKey
    IN  SelectSeq(manifest, Bound)

\* the types of the matrix-bound resources
ManifestTypes == { r.type : r \in Range(MatrixBound) }

\* the matrix-bound resources of a type, in manifest order
Members(t) ==
    LET OfType(r) == r.type = t
    IN  SelectSeq(MatrixBound, OfType)

\* the groups load_data hands to consolidate
ManifestGroups == { Members(t) : t \in ManifestTypes }

RowTriple(el) == <<el.row_from_label, el.row_to_label, el.row_dict>>

ColTriple(el) == <<el.col_from_label, el.col_to_label, el.col_dict>>

DiffMatrix(g) == \E a \in Range(g), b \in Range(g) : a.matrix # b.matrix

DiffRows(g) == \E a \in Range(g), b \in Range(g) : RowTriple(a) # RowTriple(b)

\* a member declares column fields, and the members disagree on them
DiffCols(g) ==
    /\ \E o \in Range(g) : o.col_dict # NoKey
    /\ \E a \in Range(g), b \in Range(g) : ColTriple(a) # ColTriple(b)

DiffSchema(g) == \E a \in Range(g), b \in Range(g) : a.indices.dtype # b.indices.dtype

\* load_data was called and raised
LoadRaised == loaded # Absent /\ IsError(Get(loaded))

\* C11 as stated: a group with two matrices fails with the assertion on the
\* matrices, a group with two schemas fails with IncompatibleIndices, and
\* load_data returns nothing
C11_Original ==
    \A g \in ManifestGroups :
        /\ DiffMatrix(g) => consolidate(g) = [error |-> "AssertionError"]
        /\ DiffSchema(g) => consolidate(g) = [error |-> "IncompatibleIndices"]
        /\ (DiffMatrix(g) \/ DiffSchema(g)) => (loaded # Absent => LoadRaised)

\* C11: a group with two matrices fails with the assertion on the matrices; a
\* group with two schemas whose members agree on the matrix, on the row
\* labels and on the column labels fails with IncompatibleIndices; a group
\* with two schemas fails in any case, and load_data returns nothing
C11_ConsolidationConflict ==
    \A g \in ManifestGroups :
        /\ DiffMatrix(g) => consolidate(g) = [error |-> "AssertionError"]
        /\ (DiffSchema(g) /\ ~DiffMatrix(g) /\ ~DiffRows(g) /\ ~DiffCols(g)) =>
              consolidate(g) = [error |-> "IncompatibleIndices"]
        /\ DiffSchema(g) => IsError(consolidate(g))
        /\ (DiffMatrix(g) \/ DiffSchema(g)) => (loaded # Absent => LoadRaised)

\* C11 witness: load_data raised IncompatibleIndices for a manifest with two
\* resources of one type that differ in their schema alone
C11_Witness ==
    /\ LoadRaised
    /\ Get(loaded).error = "IncompatibleIndices"
    /\ \E g \in ManifestGroups :
          DiffSchema(g) /\ ~DiffMatrix(g) /\ ~DiffRows(g) /\ ~DiffCols(g)

\* C12: a group whose members agree on the matrix and disagree on the row
\* labels, or of which one declares column fields while they disagree on the
\* column labels, fails with ConflictingLabels, and load_data returns nothing
C12_LabelConflict ==
    \A g \in ManifestGroups :
        (~DiffMatrix(g) /\ (DiffRows(g) \/ DiffCols(g))) =>
            /\ consolidate(g) = [error |-> "ConflictingLabels"]
            /\ loaded # Absent => LoadRaised

\* the identifier of the resource that record i of an element stems from
OwnerOf(el, i) == el.indices[i][el.row_from_label]

\* C17: load_data makes one element of every type among the matrix-bound
\* resources and ignores the resources without a matrix; the table of an
\* element is the tables of the resources of its type one after the other in
\* manifest order, its samples are their samples in that order, and row i of
\* every sample belongs to record i of the table
C17_ConsolidationOrder ==
    (loaded # Absent /\ ~LoadRaised) =>
        LET matrix_data == Get(loaded).matrix_data
        IN  /\ Len(matrix_data) = Cardinality(ManifestTypes)
            /\ { matrix_data[k].type : k \in 1 .. Len(matrix_data) } = ManifestTypes
            /\ \A k \in 1 .. Len(matrix_data) :
                  LET el == matrix_data[k]
                      members == Members(el.type)
                  IN  /\ el.indices = Hstack([n \in 1 .. Len(members) |->
                                                 members[n].indices.rows])
                      /\ Len(el.indices) = Len(members)
                      /\ \A n \in 1 .. Len(members) :
                            /\ el.samples[n] = members[n].samples
                            /\ el.indices[n] = members[n].indices.rows[1]
                      /\ \A index \in 0 .. (NCols - 1) :
                            /\ Len(Sample(el.samples, index)) = Len(el.indices)
                            /\ \A i \in 1 .. Len(el.indices) :
                                  Sample(el.samples, index)[i] =
                                     manifest[OwnerOf(el, i)].samples[1][index + 1]

\* C17 witness: load_data made two elements of a manifest whose first and
\* last resource have one type and whose second has another; the element of
\* the first type holds the records of the first and of the last resource
C17_Witness ==
    /\ loaded # Absent
    /\ ~LoadRaised
    /\ Len(manifest) = 3
    /\ Len(Get(loaded).matrix_data) = 2
    /\ \E k \in 1 .. 2 :
          LET el == Get(loaded).matrix_data[k]
          IN  /\ Len(el.indices) = 2
              /\ OwnerOf(el, 1) = 1
              /\ OwnerOf(el, 2) = 3

(* ------------------------------------------------------------------ *)
(* The seed of a package's Indexer                                      *)
(* ------------------------------------------------------------------ *)

\* the seed found in the datapackage.json of the package at position p
ManifestSeed(p) == Datapackage[dirpaths[p]].seed

\* C13: a loader constructed with a seed, the seed 0 included, hands that
\* seed to the Indexer of every package it loads; a loader constructed
\* without a seed hands every package's Indexer the seed of the package's own
\* datapackage.json
C13_EffectiveSeed ==
    /\ Len(sample_indexers) = Len(dirpaths)
    /\ \A p \in 1 .. Len(dirpaths) :
          /\ seed # Absent => sample_indexers[p].seed_value = seed
          /\ seed = Absent => sample_indexers[p].seed_value = ManifestSeed(p)

\* C13 witness: a loader constructed with the seed 0 over two packages whose
\* own seeds differ from 0 and from each other, its Indexers advanced
C13_Witness ==
    /\ seed = Some(0)
    /\ Len(dirpaths) = 2
    /\ ManifestSeed(1) # ManifestSeed(2)
    /\ \A p \in 1 .. 2 :
          /\ ManifestSeed(p) \notin {Absent, Some(0)}
          /\ sample_indexers[p].seed_value = Some(0)
          /\ sample_indexers[p].count > 0

(* ------------------------------------------------------------------ *)
(* The `matrices` argument of update_matrices                           *)
(* ------------------------------------------------------------------ *)

\* the names of the matrices a call writes into
WrittenMatrices(r) == { r.written[n].matrix : n \in 1 .. Len(r.written) }

\* C14: update_matrices called with `matrices` writes only into matrices
\* named there and leaves every other matrix as it was, so that a call with
\* an empty collection writes nothing; called without `matrices`, a call
\* that returns has written every record of every element whose matrix the
\* target has
C14_MatrixFilter ==
    \A call \in Calls :
        LET r == Updated(call[1], call[2])
        IN  /\ call[2] # Absent =>
                  /\ WrittenMatrices(r) \subseteq Get(call[2])
                  /\ \A m \in MatrixNames \ Get(call[2]) :
                        r.matrices[m] = lca.matrices[m]
            /\ call[2] = Some({}) =>
                  r.written = <<>> /\ r.matrices = lca.matrices /\ r.raised = None
            /\ (call[2] = Absent /\ r.raised = None) =>
                  \A ke \in Elems :
                      HasMatrix(call, ke) =>
                          \A i \in Records(ke) :
                              \E n \in 1 .. Len(r.written) :
                                  /\ r.written[n].data = ke[1]
                                  /\ r.written[n].elem = ke[2]
                                  /\ r.written[n].record = i
                                  /\ r.written[n].matrix = Elem(ke).matrix

\* C14 witness: the target has both matrices and the loader an element for
\* each; one matrix holds a value written for its element, the other is still
\* all zeros, a call naming the first matrix alone leaves the other as it is
\* and a call without `matrices` does not
C14_Witness ==
    \E a \in Elems, b \in Elems :
        /\ Elem(a).matrix # Elem(b).matrix
        /\ lca.matrices[Elem(a).matrix] # Absent
        /\ lca.matrices[Elem(b).matrix] = Some(ZeroMatrix)
        /\ InRange(a) /\ InRange(b)
        /\ \E i \in Records(a) :
              /\ WrittenValue(a, i) # 0
              /\ LastWrite(<<"lca", Some({Elem(a).matrix})>>, <<a, i>>) = <<a, i>>
              /\ Get(lca.matrices[Elem(a).matrix])[CellOf(<<a, i>>)] = WrittenValue(a, i)
        /\ LET filtered == Updated("lca", Some({Elem(a).matrix}))
               unfiltered == Updated("lca", Absent)
           IN  /\ filtered.raised = None
               /\ filtered.written # <<>>
               /\ filtered.matrices[Elem(b).matrix] = Some(ZeroMatrix)
               /\ unfiltered.raised = None
               /\ unfiltered.matrices[Elem(b).matrix] # Some(ZeroMatrix)

(* ------------------------------------------------------------------ *)
(* The length of the loader                                             *)
(* ------------------------------------------------------------------ *)

\* len(loader)
__len__ == Len(data)

\* C15: the length of the loader is the number of packages it loaded, the
\* packages that hold only named parameters or no resource at all included
C15_PackageCount == __len__ = Len(dirpaths)

(* ------------------------------------------------------------------ *)
(* update_matrices before index_arrays                                  *)
(* ------------------------------------------------------------------ *)

\* the raw identifiers of record i of an element
RawRow(ke, i) == Elem(ke).indices[i][Elem(ke).row_from_label]

RawCol(ke, i) ==
    IF HasCols(Elem(ke)) THEN Elem(ke).indices[i][Elem(ke).col_from_label]
    ELSE RawRow(ke, i)

\* the element was not resolved by any index_arrays yet
Unresolved(ke) == ~Elem(ke).indexed

\* the row and column fields of an unresolved element hold its raw identifiers
HoldsRawIds(ke) ==
    \A i \in Records(ke) : RowOf(ke, i) = RawRow(ke, i) /\ ColOf(ke, i) = RawCol(ke, i)

\* the call has written every record of the element at its raw identifiers
WrittenAtRawIds(r, ke) ==
    \A i \in Records(ke) :
        \E n \in WritesOf(r, ke) :
            /\ r.written[n].record = i
            /\ r.written[n].row = RawRow(ke, i)
            /\ r.written[n].col = RawCol(ke, i)
            /\ r.written[n].value = WrittenValue(ke, i)

\* C16 as stated: the fields of an unresolved element hold its raw
\* identifiers, and update_matrices raises nothing and writes every record
\* of every unresolved element it reaches at the record's raw identifiers
C16_Original ==
    /\ \A ke \in Elems : Unresolved(ke) => HoldsRawIds(ke)
    /\ \A call \in Calls :
          LET r == Updated(call[1], call[2])
          IN  /\ r.raised = None
              /\ \A ke \in Elems :
                    (Unresolved(ke) /\ Reaches(call, ke)) => WrittenAtRawIds(r, ke)

\* C16: the fields of an unresolved element hold its raw identifiers; an
\* update_matrices that reaches only elements whose positions lie inside
\* their matrix raises nothing and writes every record of every unresolved
\* element it reaches at the record's raw identifiers; one that reaches an
\* element with a position outside its matrix, which only an unresolved
\* element has, raises IndexError, writes nothing for such an element, and
\* has written whatever it wrote for an unresolved element at raw identifiers
C16_UpdateBeforeIndex ==
    /\ \A ke \in Elems : Unresolved(ke) => HoldsRawIds(ke)
    /\ \A ke \in Elems : ~InRange(ke) => Unresolved(ke)
    /\ \A call \in Calls :
          LET r == Updated(call[1], call[2])
          IN  /\ Returns(call) =>
                    /\ r.raised = None
                    /\ \A ke \in Elems :
                          (Unresolved(ke) /\ Reaches(call, ke)) => WrittenAtRawIds(r, ke)
              /\ ~Returns(call) => r.raised = "IndexError"
              /\ \A ke \in Elems :
                    /\ ~InRange(ke) => WritesOf(r, ke) = {}
                    /\ (Unresolved(ke) /\ WritesOf(r, ke) # {}) => WrittenAtRawIds(r, ke)

\* C16 witness: a matrix holds, at the raw identifiers of a record of an
\* unresolved element, which are not the position the record resolves to, the
\* value written for the record, while the loader holds an unresolved
\* element with a raw identifier outside its matrix, on which a call raises
C16_Witness ==
    \E a \in Elems, b \in Elems :
        /\ Unresolved(a)
        /\ InRange(a)
        /\ lca.matrices[Elem(a).matrix] # Absent
        /\ \E i \in Records(a) :
              /\ LastWrite(<<"lca", Some({Elem(a).matrix})>>, <<a, i>>) = <<a, i>>
              /\ CellOf(<<a, i>>) = <<RawRow(a, i), RawCol(a, i)>>
              /\ Mapping(Elem(a).row_dict, "first")[RawRow(a, i)] # RawRow(a, i)
              /\ WrittenValue(a, i) # 0
              /\ Get(lca.matrices[Elem(a).matrix])[<<RawRow(a, i), RawCol(a, i)>>] =
                    WrittenValue(a, i)
        /\ Unresolved(b)
        /\ ~InRange(b)
        /\ lca.matrices[Elem(b).matrix] # Absent
        /\ Updated("lca", Absent).raised = "IndexError"

(* ------------------------------------------------------------------ *)
(* What each operation leaves alone                                     *)
(* ------------------------------------------------------------------ *)

\* the identifier tables and indexed flags of every element
Tables == [ke \in Elems |-> [indices |-> Elem(ke).indices, indexed |-> Elem(ke).indexed]]

\* the current index of every Indexer
Indices == [p \in 1 .. Len(sample_indexers) |-> sample_indexers[p].index]

\* what the same update_matrices call does when it is made again right after
\* a first one that ended as r, the loader being as it was
Repeated(r, call) ==
    IF empty THEN [UpdateStart EXCEPT !.matrices = r.matrices]
    ELSE UpdatePairs([UpdateStart EXCEPT !.matrices = r.matrices], 1, call[1], call[2])

\* the same update_matrices call, made again right after the first, writes
\* the same values, leaves the matrices as the first call left them and ends
\* as the first call ended
UpdateRepeats ==
    \A call \in Calls :
        LET r == Updated(call[1], call[2])
            again == Repeated(r, call)
        IN  /\ again.written = r.written
            /\ again.matrices = r.matrices
            /\ again.raised = r.raised

\* a step changes an identifier table, an indexed flag, an Indexer or a
\* dictionary of the target
TouchesTablesOrIndexers ==
    ~(/\ Tables' = Tables
      /\ sample_indexers' = sample_indexers
      /\ Indices' = Indices
      /\ lca'.dicts = lca.dicts)

\* C18: a step of index_arrays changes no matrix or dictionary of the target
\* and no Indexer; a step that changes an identifier table, an indexed flag,
\* an Indexer or a dictionary is no step of update_matrices, so that the same
\* update_matrices call made again writes the same values and leaves the
\* matrices as the first call left them; a step of update_sample_indices
\* changes no identifier table, no indexed flag and no matrix
C18_Frame ==
    /\ []UpdateRepeats
    /\ [][ /\ (\E target \in Targets : index_arrays(target)) =>
                  (lca' = lca /\ sample_indexers' = sample_indexers)
           /\ TouchesTablesOrIndexers =>
                  \A call \in Calls : ~update_matrices(call[1], call[2])
           /\ update_sample_indices => (Tables' = Tables /\ lca' = lca)
         ]_vars

\* C18 witness: an element was resolved, the Indexers were advanced, and a
\* matrix holds, at the resolved position of a record of the element, the
\* value written for it at the current index
C18_Witness ==
    \E ke \in Elems :
        /\ Elem(ke).indexed
        /\ OwnIndexer(ke[1]).count > 0
        /\ lca.matrices[Elem(ke).matrix] # Absent
        /\ \E i \in Records(ke) :
              /\ RowOf(ke, i) # RawRow(ke, i)
              /\ WrittenValue(ke, i) # 0
              /\ LastWrite(<<"lca", Absent>>, <<ke, i>>) = <<ke, i>>
              /\ Get(lca.matrices[Elem(ke).matrix])[CellOf(<<ke, i>>)] = WrittenValue(ke, i)
              /\ Updated("lca", Absent).matrices = lca.matrices

(* ------------------------------------------------------------------ *)
(* Elements are resolved one by one                                     *)
(* ------------------------------------------------------------------ *)

\* element ke of self.data as a call of index_arrays on the target leaves it
IndexedElem(ke) == NonemptyIndexed("lca")[ke[1]].matrix_data[ke[2]]

\* C19: an index_arrays call on the target resolves and marks every element
\* whose dictionaries the target has, whatever other elements of the same or
\* of another package it has to pass over, and leaves the elements it passes
\* over unmarked; called when the target has every dictionary that some
\* element needs, it leaves every element marked
C19_IndependentResolution ==
    /\ \A ke \in Elems :
          /\ ~LacksDict("lca", Elem(ke)) =>
                /\ IndexedElem(ke).indexed
                /\ Unresolved(ke) =>
                      \E generation \in Generations :
                          IndexedElem(ke).indices = ResolvedTable(Elem(ke), generation)
          /\ (LacksDict("lca", Elem(ke)) /\ Unresolved(ke)) => IndexedElem(ke) = Elem(ke)
    /\ (\A ke \in Elems : ~LacksDict("lca", Elem(ke))) =>
          \A ke \in Elems : IndexedElem(ke).indexed

\* C19 witness: an element was resolved and marked although an element that
\* comes before it, in the same package, is still passed over for want of a
\* dictionary, and another call would pass over it again
C19_Witness ==
    \E a \in Elems, b \in Elems :
        /\ a[1] = b[1]
        /\ a[2] < b[2]
        /\ Unresolved(a)
        /\ LacksDict("lca", Elem(a))
        /\ Elem(b).indexed
        /\ \E i \in Records(b) : RowOf(b, i) # RawRow(b, i)
        /\ ~IndexedElem(a).indexed

(* ------------------------------------------------------------------ *)
(* update_sample_indices after parameters                               *)
(* ------------------------------------------------------------------ *)

\* C20: update_sample_indices raises nothing, whatever was called on the
\* loader before, parameters included, and advances the Indexer of every
\* package by one step
C20_AdvanceNeverRaises ==
    /\ AdvanceRaises = None
    /\ \A p \in 1 .. Len(sample_indexers) :
          AdvancedIndexers(sample_indexers)[p].count = sample_indexers[p].count + 1

====
